---- MODULE Spec2Model ----
(***************************************************************************)
(* Model of src/src/lib/ai/predictors.ts: NeuralPatternRecognizer,         *)
(* MultiStepPredictor, AnomalyDetector and BacktestingEngine.              *)
(*                                                                         *)
(* JavaScript numbers are modelled as decimal fixed-point values with      *)
(* FracDigits fractional digits (truncating), extended with the IEEE       *)
(* special values Infinity and NaN.  Counters and indices are integers.    *)
(***************************************************************************)
EXTENDS Integers, Sequences, FiniteSets, TLC

\* ------------------------------------------------------------------ bounds

\* Fractional decimal digits kept by the fixed-point numbers.
FracDigits == 2
\* Longest digit array passed to train().
MaxLen == 5
\* Budget of the train() calls on one recognizer: one per call plus one per
\* digit passed.
MaxWork == 9
\* Largest number of steps asked of predictNextN().
MaxSteps == 4
\* Longest history a MultiStepPredictor is constructed from.
MaxHist == 3
\* Longest recentDigits array passed to predictNextN().
MaxRecent == 2
\* Longest run of one digit in the arrays passed to detect().
MaxRun == 6
\* Most iterations of the loop of one backtest().
MaxScored == 3
\* Longest constant array passed to backtest().
MaxConstant == 60

Scale == 10 ^ FracDigits

\* ----------------------------------------------------------------- numbers
\*
\* An operand or intermediate value that is used more than once is bound by
\* a quantifier over a singleton set ({e : x \in {operand}}), so that it is
\* evaluated once; CHOOSE then takes the single element.

Fin(v) == [k |-> "fin", v |-> v]
Infinity == [k |-> "inf", v |-> 0]
NaN == [k |-> "nan", v |-> 0]

\* An integer literal or counter as a number.
Num(n) == Fin(n * Scale)
\* The decimal literal n/d (0.6 is Dec(6, 10)).
Dec(n, d) == Fin((n * Scale) \div d)

IsNaN(a) == a.k = "nan"
IsInf(a) == a.k = "inf"
IsFin(a) == a.k = "fin"

\* floor(a * b / Scale) for a, b >= 0, without leaving 32 bits.
MulFix(a, b) ==
    (a \div Scale) * (b \div Scale) * Scale + (a \div Scale) * (b % Scale)
        + (a % Scale) * (b \div Scale) + ((a % Scale) * (b % Scale)) \div Scale
\* floor(a * Scale / b) for a >= 0, b > 0, without leaving 32 bits.
DivFix(a, b) == (a \div b) * Scale + ((a % b) * Scale) \div b

\* x + y.  Negative infinity never arises in the program and is not modelled.
Add(x, y) ==
    CHOOSE r \in {IF IsNaN(a) \/ IsNaN(b) THEN NaN
                  ELSE IF IsInf(a) \/ IsInf(b) THEN Infinity
                  ELSE Fin(a.v + b.v) : a \in {x}, b \in {y}} : TRUE

\* x - y, for y finite or NaN.
Sub(x, y) ==
    CHOOSE r \in {IF IsNaN(a) \/ IsNaN(b) THEN NaN
                  ELSE IF IsInf(a) THEN Infinity
                  ELSE Fin(a.v - b.v) : a \in {x}, b \in {y}} : TRUE

AbsInt(n) == IF n < 0 THEN -n ELSE n

\* Math.abs
Abs(x) == CHOOSE r \in {IF IsFin(a) THEN Fin(AbsInt(a.v)) ELSE a : a \in {x}} : TRUE

\* The sign of the product of two integers.
SignOf(a, b) == IF (a < 0) = (b < 0) THEN 1 ELSE -1

\* x * y, for operands that are not negative infinities.
Mul(x, y) ==
    CHOOSE r \in {IF IsNaN(a) \/ IsNaN(b) THEN NaN
                  ELSE IF IsInf(a) \/ IsInf(b)
                       THEN IF (IsFin(a) /\ a.v = 0) \/ (IsFin(b) /\ b.v = 0)
                            THEN NaN ELSE Infinity
                  ELSE Fin(SignOf(a.v, b.v) * MulFix(AbsInt(a.v), AbsInt(b.v)))
                  : a \in {x}, b \in {y}} : TRUE

\* x / y for x >= 0 and y >= 0: x/0 is Infinity for x > 0 and NaN for x = 0.
Div(x, y) ==
    CHOOSE r \in {IF IsNaN(a) \/ IsNaN(b) THEN NaN
                  ELSE IF IsInf(b) THEN (IF IsInf(a) THEN NaN ELSE Fin(0))
                  ELSE IF IsInf(a) THEN Infinity
                  ELSE IF b.v = 0 THEN (IF a.v = 0 THEN NaN ELSE Infinity)
                  ELSE Fin(DivFix(a.v, b.v)) : a \in {x}, b \in {y}} : TRUE

\* x > y, x >= y, x < y: every comparison with NaN is false.
Gt(x, y) ==
    \E a \in {x}, b \in {y} :
        /\ ~IsNaN(a)
        /\ ~IsNaN(b)
        /\ IF IsInf(a) THEN ~IsInf(b) ELSE (IsFin(b) /\ a.v > b.v)

Ge(x, y) ==
    \E a \in {x}, b \in {y} :
        /\ ~IsNaN(a)
        /\ ~IsNaN(b)
        /\ IF IsInf(a) THEN TRUE ELSE (IsFin(b) /\ a.v >= b.v)

Lt(x, y) == Gt(y, x)

\* The truthiness of a number in `x || 0`: 0 and NaN are falsy.
Truthy(x) == \E a \in {x} : IsInf(a) \/ (IsFin(a) /\ a.v # 0)

\* x || 0
OrZero(x) == CHOOSE r \in {IF Truthy(a) THEN a ELSE Num(0) : a \in {x}} : TRUE

\* Math.min(x, y) and Math.max(x, y): NaN if either is NaN.
Min(x, y) ==
    CHOOSE r \in {IF IsNaN(a) \/ IsNaN(b) THEN NaN ELSE IF Lt(b, a) THEN b ELSE a
                  : a \in {x}, b \in {y}} : TRUE

Max(x, y) ==
    CHOOSE r \in {IF IsNaN(a) \/ IsNaN(b) THEN NaN ELSE IF Gt(b, a) THEN b ELSE a
                  : a \in {x}, b \in {y}} : TRUE

\* Math.pow(base, e) for an integer e >= 0.
RECURSIVE Pow(_, _)
Pow(base, e) == IF e = 0 THEN Num(1) ELSE Mul(Pow(base, e - 1), base)

\* ------------------------------------------------------------------ inputs

Digit == 0 .. 9

\* The first n elements of block repeated.
Cycle(block, n) == [i \in 1 .. n |-> block[((i - 1) % Len(block)) + 1]]

\* Arrays passed to train(): constant and alternating histories, [] included.
TrainBlocks == {<<0>>, <<0, 1>>}
TrainInputs == {Cycle(b, n) : b \in TrainBlocks, n \in 0 .. MaxLen}

\* Arrays passed to predictNext().
RecentBlocks == {<<0>>, <<0, 1>>, <<1, 0>>}
RecentInputs == {Cycle(b, n) : b \in RecentBlocks, n \in 0 .. MaxLen}

\* Arrays a MultiStepPredictor is constructed from, and those passed to
\* predictNextN().
HistInputs == {Cycle(b, n) : b \in TrainBlocks, n \in 0 .. MaxHist}
ForecastInputs == {Cycle(b, n) : b \in RecentBlocks, n \in 0 .. MaxRecent}

\* A run of n digits d.
Run(d, n) == [i \in 1 .. n |-> d]

\* Arrays passed to calibrate(): [], all ten digits once, and arrays in which
\* some digits never occur.
CalibrateInputs ==
    {<<>>, <<0, 1, 2, 3, 4, 5, 6, 7, 8, 9>>, <<0, 1>>, <<0, 0, 0, 1>>,
     <<0, 1, 2, 3, 4, 5, 6>>}

\* Arrays passed to detect(): a run of 0s, then 1s, then 0s again, where a run
\* is absent, one short of a streak or longer; and arrays that alternate,
\* ascend or descend.
RunLengths == {0} \cup (4 .. MaxRun)
DetectInputs ==
    {Run(0, a) \o Run(1, b) \o Run(0, c) : a \in RunLengths, b \in {0, 1, MaxRun},
                                          c \in RunLengths}
        \cup {<<0, 1, 1, 1, 1, 1>>, <<0, 1, 0, 1, 0, 1>>, <<5, 0, 1, 2, 3>>, <<3, 2, 1, 0>>,
              <<0, 1, 2, 3, 4, 5, 6, 7, 8, 9>>}

\* for (let i = 50; ...): the first index backtest() scores.
WarmUp == 50

\* Arrays passed to backtest(): constant and alternating data, from one
\* element short of the warm-up to MaxScored scored indices.
BacktestInputs ==
    {Cycle(b, n) : b \in TrainBlocks, n \in (WarmUp - 1) .. (WarmUp + 1 + MaxScored)}

\* Long arrays of one digit passed to backtest().
ConstantInputs == {Cycle(<<0>>, n) : n \in 59 .. MaxConstant}

\* ------------------------------------------------- NeuralPatternRecognizer

windowSizes == <<2, 3, 4, 5>>

\* Array.prototype.slice(from, to) with 0 <= from <= to, as a 1-based sequence.
Slice(a, from, to) ==
    LET hi == IF to > Len(a) THEN Len(a) ELSE to
    IN  IF from >= hi THEN <<>> ELSE SubSeq(a, from + 1, hi)

\* Array.prototype.slice(-n) for n >= 1: the last n elements (all if fewer).
SliceLast(a, n) == IF n >= Len(a) THEN a ELSE SubSeq(a, Len(a) - n + 1, Len(a))

DigitChar(d) == <<"0", "1", "2", "3", "4", "5", "6", "7", "8", "9">>[d + 1]

\* sequence.join(','): the characters of the key, one per element.
RECURSIVE Join(_)
Join(seq) ==
    IF Len(seq) = 0 THEN <<>>
    ELSE IF Len(seq) = 1 THEN <<DigitChar(seq[1])>>
    ELSE <<DigitChar(seq[1]), ",">> \o Join(Tail(seq))

\* Map.get(key): the index of the entry with that key, 0 when absent.
Lookup(pats, key) ==
    IF \E j \in 1 .. Len(pats) : pats[j].key = key
    THEN CHOOSE j \in 1 .. Len(pats) : pats[j].key = key
    ELSE 0

\* An existing pattern seen again at index i.
Bump(p, i) == [p EXCEPT !.frequency = @ + 1, !.lastSeen = i]

\* The body of train()'s inner loop for the window starting at index i.
Upsert(pats, digits, windowSize, i) ==
    CHOOSE r \in
        {IF j # 0
         THEN [table EXCEPT ![j] = Bump(table[j], i)]
         ELSE Append(table, [key |-> key, sequence |-> sequence, frequency |-> 1,
                             confidence |-> Num(0), lastSeen |-> i,
                             successRate |-> 0])
         : <<table, sequence, key, j>> \in
              {<<t1, s1, k1, Lookup(t1, k1)>> :
                  <<t1, s1, k1>> \in {<<t0, s0, Join(s0)>> :
                      t0 \in {pats}, s0 \in {Slice(digits, i, i + windowSize)}}}} : TRUE

\* for (let i = 0; i <= digits.length - windowSize; i++)
RECURSIVE SlideWindow(_, _, _, _)
SlideWindow(pats, digits, windowSize, i) ==
    IF i > Len(digits) - windowSize THEN pats
    ELSE SlideWindow(Upsert(pats, digits, windowSize, i), digits, windowSize, i + 1)

\* this.windowSizes.forEach(...)
RECURSIVE CountWindows(_, _, _)
CountWindows(pats, digits, w) ==
    IF w > Len(windowSizes) THEN pats
    ELSE CountWindows(SlideWindow(pats, digits, windowSizes[w], 0), digits, w + 1)

\* The confidence of one pattern for a corpus of n digits.
Confidence(p, n) ==
    LET recency == Mul(Div(Num(p.lastSeen), Num(n)), Num(100))
        frequency == Mul(Div(Num(p.frequency), Num(n)), Num(1000))
    IN  Add(Mul(frequency, Dec(6, 10)), Mul(recency, Dec(4, 10)))

\* Rescale that skips the patterns the latest array does not contain.
RescaleSeen(pats, digits) ==
    CHOOSE r \in
        {[j \in 1 .. Len(table) |->
            IF \E i \in 0 .. Len(digits) - Len(table[j].sequence) :
                  Slice(digits, i, i + Len(table[j].sequence)) = table[j].sequence
            THEN [table[j] EXCEPT !.confidence = Confidence(table[j], Len(digits))]
            ELSE table[j]] : table \in {pats}} : TRUE

\* The closing pass of train() over every stored pattern.
Rescale(pats, digits) ==
    CHOOSE r \in
        {[j \in 1 .. Len(table) |->
            [table[j] EXCEPT !.confidence = Confidence(table[j], Len(digits))]]
         : table \in {pats}} : TRUE

\* train() that starts from an empty table on every call.
trainReset(pats, digits) == Rescale(CountWindows(<<>>, digits, 1), digits)

train(pats, digits) == Rescale(CountWindows(pats, digits, 1), digits)

\* Map.get(digit) on the predictions map (insertion-ordered digit/weight pairs).
MapIndex(m, d) ==
    IF \E j \in 1 .. Len(m) : m[j][1] = d
    THEN CHOOSE j \in 1 .. Len(m) : m[j][1] = d
    ELSE 0

\* predictions.set(nextDigit, (predictions.get(nextDigit) || 0) + weight)
Accumulate(m, nextDigit, weight) ==
    CHOOSE r \in
        {IF j # 0
         THEN [map EXCEPT ![j] = <<nextDigit, Add(OrZero(map[j][2]), weight)>>]
         ELSE Append(map, <<nextDigit, Add(Num(0), weight)>>)
         : <<map, j>> \in {<<x, MapIndex(x, nextDigit)>> : x \in {m}}} : TRUE

\* Whether the pattern's prefix equals the tail of recentDigits.
PrefixMatches(p, recentDigits) ==
    LET seqLength == Len(p.sequence)
    IN  /\ Len(recentDigits) >= seqLength - 1
        /\ SliceLast(recentDigits, seqLength - 1) = Slice(p.sequence, 0, seqLength - 1)

\* this.patterns.forEach(...) of predictNext from entry j on.
RECURSIVE PredictFrom(_, _, _, _)
PredictFrom(pats, recentDigits, j, m) ==
    IF j > Len(pats) THEN m
    ELSE IF PrefixMatches(pats[j], recentDigits)
         THEN PredictFrom(pats, recentDigits, j + 1,
                          Accumulate(m, pats[j].sequence[Len(pats[j].sequence)],
                                     pats[j].confidence))
         ELSE PredictFrom(pats, recentDigits, j + 1, m)

predictNext(pats, recentDigits) ==
    CHOOSE r \in {PredictFrom(table, digits, 1, <<>>)
                  : table \in {pats}, digits \in {recentDigits}} : TRUE

\* ------------------------------------------------------ MultiStepPredictor

\* The number of elements of digits equal to d.
Count(digits, d) == Cardinality({i \in 1 .. Len(digits) : digits[i] = d})

ZeroMatrix == [from \in Digit |-> [to \in Digit |-> Num(0)]]

\* The transition-counting loop of buildEnhancedMarkov from index i on.
RECURSIVE CountTransitions(_, _, _)
CountTransitions(digits, i, t) ==
    IF i >= Len(digits) - 1 THEN t
    ELSE LET from == digits[i + 1]
             to == digits[i + 2]
             weight == Pow(Dec(99, 100), Len(digits) - 1 - i)
         IN  CountTransitions(digits, i + 1,
                              [t EXCEPT ![from][to] = Add(@, weight)])

\* row.reduce((sum, count) => sum + count, 0)
RECURSIVE RowTotal(_, _)
RowTotal(row, to) == IF to < 0 THEN Num(0) ELSE Add(RowTotal(row, to - 1), row[to])

\* One cell of the matrix buildEnhancedMarkov returns.
MarkovCell(count, neuralWeight, total) ==
    LET baseProb == IF Gt(total, Num(0))
                    THEN Mul(Div(count, total), Num(100))
                    ELSE Num(0)
        neuralBoost == Div(neuralWeight, Num(10))
    IN  Min(Add(baseProb, neuralBoost), Num(100))

buildEnhancedMarkov(digits) ==
    CHOOSE r \in
        {[from \in Digit |->
            CHOOSE row \in
                {[to \in Digit |->
                    MarkovCell(transitions[from][to], neuralWeights[from][to], total)]
                 : total \in {RowTotal(transitions[from], 9)}} : TRUE]
         : transitions \in {CountTransitions(digits, 0, ZeroMatrix)},
           neuralWeights \in {CountTransitions(digits, 0, ZeroMatrix)}} : TRUE

\* MultiStepPredictor.analyzeFrequency
analyzeFrequency(digits) ==
    [d \in Digit |-> Mul(Div(Num(Count(digits, d)), Num(Len(digits))), Num(100))]

\* patternPreds.get(digit) || 0
PatternScore(patternPreds, digit) ==
    LET j == MapIndex(patternPreds, digit)
    IN  IF j = 0 THEN Num(0) ELSE OrZero(patternPreds[j][2])

\* The totalScore of one digit.
TotalScore(patternScore, markovScore, freqScore) ==
    Add(Add(Mul(patternScore, Dec(5, 10)), Mul(markovScore, Dec(35, 100))),
        Mul(freqScore, Dec(15, 100)))

\* The ensemble entry [digit, totalScore] of one digit.
Entry(patternPreds, markovProbs, freqAnalysis, digit) ==
    <<digit, TotalScore(PatternScore(patternPreds, digit),
                        OrZero(markovProbs[digit]),
                        OrZero(freqAnalysis[digit]))>>

\* for (let digit = 0; digit < 10; digit++): the entries in insertion order.
Ensemble(pats, markov, currentDigits) ==
    CHOOSE r \in
        {<<Entry(p, m, f, 0), Entry(p, m, f, 1), Entry(p, m, f, 2), Entry(p, m, f, 3),
           Entry(p, m, f, 4), Entry(p, m, f, 5), Entry(p, m, f, 6), Entry(p, m, f, 7),
           Entry(p, m, f, 8), Entry(p, m, f, 9)>>
         : p \in {predictNext(pats, currentDigits)},
           m \in {markov[currentDigits[Len(currentDigits)]]},
           f \in {analyzeFrequency(currentDigits)}} : TRUE

\* Array.prototype.sort with a comparator that orders by descending key
\* (keys[i] is the key of seq[i]): the sort is stable, so equal keys keep
\* their order.
StableSortDesc(seq, keys) ==
    LET n == Len(seq)
        pos(i) == 1 + Cardinality({j \in 1 .. n :
                        \/ keys[j] > keys[i]
                        \/ (keys[j] = keys[i] /\ j < i)})
    IN  [p \in 1 .. n |-> seq[CHOOSE i \in 1 .. n : pos(i) = p]]

\* The keys of sort((a, b) => b[1] - a[1]); the ensemble scores are finite.
ScoreKeys(e) ==
    <<e[1][2].v, e[2][2].v, e[3][2].v, e[4][2].v, e[5][2].v,
      e[6][2].v, e[7][2].v, e[8][2].v, e[9][2].v, e[10][2].v>>

\* Array.from(ensemble.entries()).sort((a, b) => b[1] - a[1])
SortedEnsemble(pats, markov, currentDigits) ==
    CHOOSE r \in {StableSortDesc(ensemble, keys)
                  : <<ensemble, keys>> \in
                       {<<e, ScoreKeys(e)>> : e \in {Ensemble(pats, markov, currentDigits)}}}
        : TRUE

\* The confidence bucket of a score.
Bucket(score) ==
    IF Ge(score, Num(80)) THEN "very_high"
    ELSE IF Ge(score, Num(65)) THEN "high"
    ELSE IF Ge(score, Num(50)) THEN "medium"
    ELSE "low"

\* A loop that never leaves early.
EarlyExitNever(confidence, step) == FALSE

\* if (confidence === 'low' && step >= 3) break
EarlyExit(confidence, step) == confidence = "low" /\ step >= 3

\* One MultiStepPrediction.
Prediction(step, best) ==
    [step |-> step, digit |-> best[1], probability |-> best[2],
     confidence |-> Bucket(best[2]),
     method |-> "Ensemble (Pattern + Markov + Frequency)"]

\* The loop of predictNextN from `step` on; returns the predictions and the
\* working array.
RECURSIVE PredictLoop(_, _, _, _, _, _)
PredictLoop(pats, markov, currentDigits, predictions_, step, steps_) ==
    IF step > steps_ THEN [predictions |-> predictions_, currentDigits |-> currentDigits]
    ELSE CHOOSE r \in
            {IF EarlyExit(made.confidence, step)
             THEN [predictions |-> Append(done, made),
                   currentDigits |-> Append(working, made.digit)]
             ELSE PredictLoop(pats, markov, Append(working, made.digit),
                              Append(done, made), step + 1, steps_)
             : <<working, done, made>> \in
                  {<<w, d, Prediction(step, SortedEnsemble(pats, markov, w)[1])>>
                   : w \in {currentDigits}, d \in {predictions_}}} : TRUE

\* predictNextN(recentDigits, steps).  With recentDigits empty and steps >= 1,
\* lastDigit is undefined, markovProbs is undefined and markovProbs[digit]
\* throws a TypeError.
predictNextN(pats, markov, recentDigits, steps_) ==
    IF steps_ >= 1 /\ Len(recentDigits) = 0
    THEN [threw |-> TRUE, predictions |-> <<>>, currentDigits |-> recentDigits]
    ELSE CHOOSE r \in
            {[threw |-> FALSE, predictions |-> run.predictions,
              currentDigits |-> run.currentDigits]
             : run \in {PredictLoop(pats, markov, recentDigits, <<>>, 1, steps_)}} : TRUE

\* const currentDigits = [...recentDigits] with the pushes going to the caller's array.
callerArrayAliased(recentDigits, currentDigits) == currentDigits

\* The caller's array after the call: currentDigits is a copy
\* ([...recentDigits]), so the pushes do not reach it.
callerArrayAfter(recentDigits, currentDigits) == recentDigits

\* --------------------------------------------------------- AnomalyDetector

\* The largest r with r * r <= n, searched between lo and hi (lo*lo <= n < hi*hi).
RECURSIVE SqrtSearch(_, _, _)
SqrtSearch(lo, hi, n) ==
    IF hi - lo <= 1 THEN lo
    ELSE CHOOSE r \in {IF mid * mid <= n THEN SqrtSearch(mid, hi, n)
                       ELSE SqrtSearch(lo, mid, n) : mid \in {(lo + hi) \div 2}} : TRUE

\* Math.sqrt of a number that is not negative.
Sqrt(x) ==
    CHOOSE r \in {IF IsFin(a) THEN Fin(SqrtSearch(0, 46341, a.v * Scale)) ELSE a
                  : a \in {x}} : TRUE

\* Number.prototype.toFixed(0) of a number that is not negative: the nearest
\* integer (v is that integer), or Infinity or NaN.
ToFixed0(x) ==
    CHOOSE r \in {[k |-> a.k, v |-> IF IsFin(a) THEN (a.v + Scale \div 2) \div Scale ELSE 0]
                  : a \in {x}} : TRUE

\* AnomalyDetector.analyzeFrequency: the ten frequencies, digit d at d + 1.
Frequency(digits, d) == Mul(Div(Num(Count(digits, d)), Num(Len(digits))), Num(100))

detectorFrequency(digits) ==
    CHOOSE r \in {<<Frequency(a, 0), Frequency(a, 1), Frequency(a, 2), Frequency(a, 3),
                    Frequency(a, 4), Frequency(a, 5), Frequency(a, 6), Frequency(a, 7),
                    Frequency(a, 8), Frequency(a, 9)>> : a \in {digits}} : TRUE

\* Math.pow(v - mean, 2)
SquareDiff(v, mean) ==
    CHOOSE r \in {Mul(d, d) : d \in {Sub(v, mean)}} : TRUE

\* values.reduce((sum, v) => sum + v, 0) over the first n values.
RECURSIVE Sum(_, _)
Sum(values, n) == IF n = 0 THEN Num(0) ELSE Add(Sum(values, n - 1), values[n])

\* calculateStdDev(values, mean) for the ten frequencies.
calculateStdDev(values, mean) ==
    CHOOSE r \in
        {Sqrt(Div(Sum(<<SquareDiff(v[1], mean), SquareDiff(v[2], mean),
                       SquareDiff(v[3], mean), SquareDiff(v[4], mean),
                       SquareDiff(v[5], mean), SquareDiff(v[6], mean),
                       SquareDiff(v[7], mean), SquareDiff(v[8], mean),
                       SquareDiff(v[9], mean), SquareDiff(v[10], mean)>>, 10),
                  Num(Len(v)))) : v \in {values}} : TRUE

\* calculateUniformity(frequencies)
calculateUniformity(frequencies) ==
    CHOOSE r \in
        {Max(Num(0),
             Sub(Num(1),
                 Div(Div(Sum(<<Abs(Sub(f[1], Num(10))), Abs(Sub(f[2], Num(10))),
                               Abs(Sub(f[3], Num(10))), Abs(Sub(f[4], Num(10))),
                               Abs(Sub(f[5], Num(10))), Abs(Sub(f[6], Num(10))),
                               Abs(Sub(f[7], Num(10))), Abs(Sub(f[8], Num(10))),
                               Abs(Sub(f[9], Num(10))), Abs(Sub(f[10], Num(10)))>>, 10),
                         Num(10)),
                     Num(10)))) : f \in {frequencies}} : TRUE

\* An Anomaly.  The description is kept as its parts: the wording, the
\* number printed in it and the digits named in it.
Anomaly(type, severity, what, n, digits, affectedDigits, advice) ==
    [type |-> type, severity |-> severity,
     description |-> [what |-> what, n |-> n, digits |-> digits],
     affectedDigits |-> affectedDigits, recommendation |-> advice]

\* The frequency anomaly of one digit, as a list of zero or one anomalies.
FrequencyAnomaly(freq, baseline, digit) ==
    CHOOSE r \in
        {IF Gt(percentChange, Num(50))
         THEN <<Anomaly("frequency",
                        IF Gt(percentChange, Num(100)) THEN "critical"
                        ELSE IF Gt(percentChange, Num(75)) THEN "high" ELSE "medium",
                        IF Gt(f, b) THEN "above normal rate" ELSE "below normal rate",
                        ToFixed0(percentChange), <<digit>>, <<digit>>,
                        IF Gt(f, b) THEN "Consider differing from digit"
                        ELSE "Consider matching digit (overdue)")>>
         ELSE <<>>
         : <<f, b, percentChange>> \in
              {<<f0, b0, Mul(Div(Abs(Sub(f0, b0)), b0), Num(100))>>
               : f0 \in {freq}, b0 \in {baseline}}} : TRUE

\* currentFreq.forEach((freq, digit) => ...) from digit d on.
RECURSIVE FrequencyAnomalies(_, _, _)
FrequencyAnomalies(currentFreq, baselines, d) ==
    IF d > 9 THEN <<>>
    ELSE FrequencyAnomaly(currentFreq[d + 1], baselines[d + 1], d)
            \o FrequencyAnomalies(currentFreq, baselines, d + 1)

\* The volatility anomaly, as a list of zero or one anomalies.
VolatilityAnomaly(currentFreq, baseline) ==
    CHOOSE r \in
        {IF Gt(volatilityChange, Mul(b, Dec(5, 10)))
         THEN <<Anomaly("volatility",
                        IF Gt(volatilityChange, b) THEN "high" ELSE "medium",
                        IF Gt(currentVolatility, b) THEN "increased" ELSE "decreased",
                        ToFixed0(Mul(Div(volatilityChange, b), Num(100))), <<>>, <<>>,
                        IF Gt(currentVolatility, b)
                        THEN "Reduce stake size due to high volatility"
                        ELSE "Stable market conditions detected")>>
         ELSE <<>>
         : <<currentVolatility, volatilityChange, b>> \in
              {<<c, Abs(Sub(c, b0)), b0>>
               : c \in {calculateStdDev(currentFreq, Num(10))}, b0 \in {baseline}}} : TRUE

\* Only the streak that just reached the threshold is reported.
StreakReportedOnce(currentStreak) == currentStreak = 5

\* if (currentStreak >= 5)
StreakReported(currentStreak) == currentStreak >= 5

\* The streak loop of detectUnusualPatterns from index i on.
RECURSIVE Streaks(_, _, _, _)
Streaks(digits, i, currentStreak, found) ==
    IF i >= Len(digits) THEN found
    ELSE IF digits[i + 1] = digits[i]
         THEN CHOOSE r \in
                {Streaks(digits, i + 1, streak,
                         IF StreakReported(streak)
                         THEN Append(f, [what |-> "x consecutive", n |-> streak,
                                         digits |-> <<digits[i + 1]>>])
                         ELSE f)
                 : streak \in {currentStreak + 1}, f \in {found}} : TRUE
         ELSE Streaks(digits, i + 1, 1, found)

\* The perfect-alternation check on the last six digits.
Alternation(digits) ==
    IF Len(digits) >= 6
    THEN LET last6 == SliceLast(digits, 6)
         IN  IF /\ last6[1] = last6[3]
                /\ last6[3] = last6[5]
                /\ last6[2] = last6[4]
                /\ last6[4] = last6[6]
                /\ last6[1] # last6[2]
             THEN <<[what |-> "Perfect alternation", n |-> 0,
                     digits |-> <<last6[1], last6[2]>>]>>
             ELSE <<>>
    ELSE <<>>

\* The ascending / descending check on the last four digits.
Sequential(digits) ==
    IF Len(digits) >= 4
    THEN LET last4 == SliceLast(digits, 4)
             isAscending == \A i \in 2 .. 4 : last4[i] = last4[i - 1] + 1
             isDescending == \A i \in 2 .. 4 : last4[i] = last4[i - 1] - 1
         IN  (IF isAscending
              THEN <<[what |-> "Ascending sequence", n |-> 0, digits |-> last4]>>
              ELSE <<>>)
             \o (IF isDescending
                 THEN <<[what |-> "Descending sequence", n |-> 0, digits |-> last4]>>
                 ELSE <<>>)
    ELSE <<>>

detectUnusualPatterns(digits) ==
    Streaks(digits, 1, 1, <<>>) \o Alternation(digits) \o Sequential(digits)

\* patterns.forEach(pattern => anomalies.push(...))
PatternAnomalies(found) ==
    [i \in 1 .. Len(found) |->
        Anomaly("pattern", "medium", found[i].what, [k |-> "fin", v |-> found[i].n],
                found[i].digits,
                <<>>, "Monitor for pattern continuation")]

\* currentFreq.indexOf(Math.max(...currentFreq)) for frequencies without NaN.
Dominant(currentFreq) ==
    (CHOOSE i \in 1 .. 10 :
        /\ \A j \in 1 .. 10 : Ge(currentFreq[i], currentFreq[j])
        /\ \A j \in 1 .. i - 1 : ~Ge(currentFreq[j], currentFreq[i])) - 1

\* The distribution anomaly, as a list of zero or one anomalies.
DistributionAnomaly(currentFreq) ==
    CHOOSE r \in
        {IF Lt(uniformityScore, Dec(7, 10))
         THEN <<Anomaly("distribution",
                        IF Lt(uniformityScore, Dec(5, 10)) THEN "high" ELSE "medium",
                        "Non-uniform distribution detected",
                        ToFixed0(Mul(uniformityScore, Num(100))), <<>>,
                        <<Dominant(currentFreq)>>,
                        "is dominating - consider differing")>>
         ELSE <<>>
         : uniformityScore \in {calculateUniformity(currentFreq)}} : TRUE

\* const severityOrder = { critical: 4, high: 3, medium: 2, low: 1 }
severityOrder(severity) ==
    CASE severity = "critical" -> 4
      [] severity = "high" -> 3
      [] severity = "medium" -> 2
      [] severity = "low" -> 1

\* The anomalies of detect() in the order they are pushed.
Detected(baselines, baselineVol, recentDigits) ==
    CHOOSE r \in
        {FrequencyAnomalies(currentFreq, baselines, 0)
            \o VolatilityAnomaly(currentFreq, baselineVol)
            \o PatternAnomalies(detectUnusualPatterns(recentDigits))
            \o DistributionAnomaly(currentFreq)
         : currentFreq \in {detectorFrequency(recentDigits)}} : TRUE

\* A sort that puts equal keys in reverse order.
ReversingSortDesc(seq, keys) ==
    LET n == Len(seq)
        pos(i) == 1 + Cardinality({j \in 1 .. n :
                        \/ keys[j] > keys[i]
                        \/ (keys[j] = keys[i] /\ j > i)})
    IN  [p \in 1 .. n |-> seq[CHOOSE i \in 1 .. n : pos(i) = p]]

\* anomalies.sort((a, b) => severityOrder[b.severity] - severityOrder[a.severity])
SortBySeverity(seq, keys) == StableSortDesc(seq, keys)

detect(baselines, baselineVol, recentDigits) ==
    CHOOSE r \in
        {SortBySeverity(pushed, keys)
         : <<pushed, keys>> \in
              {<<a, [i \in 1 .. Len(a) |-> severityOrder(a[i].severity)]>>
               : a \in {Detected(baselines, baselineVol, recentDigits)}}} : TRUE

\* calibrate(historicalDigits): the new baselineFrequency and baselineVolatility.
calibrate(historicalDigits) ==
    CHOOSE r \in
        {[baselineFrequency |-> f, baselineVolatility |-> calculateStdDev(f, Num(10))]
         : f \in {detectorFrequency(historicalDigits)}} : TRUE

\* ------------------------------------------------------- BacktestingEngine

\* i < testData.length: the final observation is scored too.
LoopContinuesToEnd(i, data) == i < Len(data)

\* i < testData.length - 1
LoopContinues(i, data) == i < Len(data) - 1

\* The counters before the loop.
NoScore ==
    [threw |-> FALSE, truePositives |-> 0, falsePositives |-> 0, profitLoss |-> Num(0),
     iterations |-> <<>>]

\* Every hit is paid as a hit of 'differ'.
ScoreDifferPayout(acc, strategy_, predicted, actual) ==
    IF (strategy_ = "match") = (predicted = actual)
    THEN [acc EXCEPT !.truePositives = @ + 1, !.profitLoss = Add(@, Dec(9, 10))]
    ELSE [acc EXCEPT !.falsePositives = @ + 1, !.profitLoss = Sub(@, Num(1))]

\* The if (strategy === 'match') ... else ... of one iteration.
Score(acc, strategy_, predicted, actual) ==
    IF strategy_ = "match"
    THEN IF predicted = actual
         THEN [acc EXCEPT !.truePositives = @ + 1, !.profitLoss = Add(@, Dec(95, 100))]
         ELSE [acc EXCEPT !.falsePositives = @ + 1, !.profitLoss = Sub(@, Num(1))]
    ELSE IF predicted # actual
         THEN [acc EXCEPT !.truePositives = @ + 1, !.profitLoss = Add(@, Dec(9, 10))]
         ELSE [acc EXCEPT !.falsePositives = @ + 1, !.profitLoss = Sub(@, Num(1))]

\* The record of one iteration: its index, history and ground truth, whether
\* the prediction list was empty, and the counters after it.
Visit(acc, i, historical, actual, empty) ==
    [acc EXCEPT !.iterations =
        Append(@, [i |-> i, historical |-> historical, actual |-> actual,
                   empty |-> empty, truePositives |-> acc.truePositives,
                   falsePositives |-> acc.falsePositives])]

\* The loop of backtest() from index i on.  An exception of predictNextN
\* leaves backtest().
RECURSIVE BacktestLoop(_, _, _, _, _, _)
BacktestLoop(pats, markov, data, strategy_, i, acc) ==
    IF ~LoopContinues(i, data) THEN acc
    ELSE CHOOSE r \in
            {IF out.threw THEN [a EXCEPT !.threw = TRUE]
             ELSE IF Len(out.predictions) = 0
                  THEN BacktestLoop(pats, markov, data, strategy_, i + 1,
                                    Visit(a, i, historical, data[i + 1], TRUE))
                  ELSE BacktestLoop(pats, markov, data, strategy_, i + 1,
                                    Visit(Score(a, strategy_, out.predictions[1].digit,
                                                data[i + 1]),
                                          i, historical, data[i + 1], FALSE))
             : <<a, historical, out>> \in
                  {<<a0, h, predictNextN(pats, markov, h, 1)>>
                   : a0 \in {acc}, h \in {Slice(data, 0, i)}}} : TRUE

\* The metrics of backtest() and the BacktestResult it returns.
Metrics(truePositives, falsePositives, trueNegatives, falseNegatives, profitLoss) ==
    CHOOSE r \in
        {[threw |-> FALSE,
          accuracy |-> Mul(Div(Num(truePositives + trueNegatives), Num(total)), Num(100)),
          precision |-> precision,
          recall |-> recall,
          f1Score |-> Div(Mul(Mul(Num(2), precision), recall), Add(precision, recall)),
          truePositives |-> truePositives,
          falsePositives |-> falsePositives,
          trueNegatives |-> trueNegatives,
          falseNegatives |-> falseNegatives,
          profitLoss |-> profitLoss]
         : <<total, precision, recall>> \in
              {<<truePositives + falsePositives + trueNegatives + falseNegatives,
                 Mul(Div(Num(truePositives), Num(truePositives + falsePositives)), Num(100)),
                 Mul(Div(Num(truePositives), Num(truePositives + falseNegatives)),
                     Num(100))>>}} : TRUE

\* No BacktestResult: no backtest() has run, or it threw.
NoResult(threw) ==
    [threw |-> threw, accuracy |-> Num(0), precision |-> Num(0), recall |-> Num(0),
     f1Score |-> Num(0), truePositives |-> 0, falsePositives |-> 0, trueNegatives |-> 0,
     falseNegatives |-> 0, profitLoss |-> Num(0)]

\* backtest(predictor, testData, strategy): the result and the iterations made.
backtest(pats, markov, data, strategy_) ==
    CHOOSE r \in
        {[result |-> IF acc.threw THEN NoResult(TRUE)
                     ELSE Metrics(acc.truePositives, acc.falsePositives, 0, 0,
                                  acc.profitLoss),
          iterations |-> acc.iterations]
         : acc \in {BacktestLoop(pats, markov, data, strategy_, WarmUp, NoScore)}} : TRUE

\* Both entries are backtests under 'match'.
compareStrategiesSame(pats, markov, data) ==
    <<[strategy |-> "Match", result |-> backtest(pats, markov, data, "match").result],
      [strategy |-> "Differ", result |-> backtest(pats, markov, data, "match").result]>>

\* compareStrategies(predictor, testData)
compareStrategies(pats, markov, data) ==
    <<[strategy |-> "Match", result |-> backtest(pats, markov, data, "match").result],
      [strategy |-> "Differ", result |-> backtest(pats, markov, data, "differ").result]>>

\* ------------------------------------------------------------------- state

VARIABLES
    op,           \* the operation that ran last
    patterns,     \* NeuralPatternRecognizer.patterns, in insertion order
    trained,      \* history: the arrays passed to train(), in call order
    recent,       \* the argument of the last predictNext / predictNextN / detect
    predictions,  \* the map returned by the last predictNext
    markovChain,  \* MultiStepPredictor.markovChain
    steps,        \* the steps argument of the last predictNextN
    callerDigits, \* the caller's recentDigits array after the last predictNextN
    forecast,     \* the outcome of the last predictNextN
    prior,        \* history: the outcome of the call before, if its arguments were the same
    baselineFrequency,  \* AnomalyDetector.baselineFrequency, digit d at d + 1
    baselineVolatility, \* AnomalyDetector.baselineVolatility
    detected,     \* the outcome of the last detect
    unsorted,     \* history: the anomalies of the last detect in the order pushed
    calibrated,   \* history: the argument of the last calibrate, and whether the
                  \* calibrate before it had the same argument
    testData,     \* the testData argument of the last backtest
    strategy,     \* the strategy argument of the last backtest
    result,       \* the outcome of the last backtest
    iterations,   \* history: the iterations of the loop of the last backtest
    compared      \* the list returned by the last compareStrategies

recognizerVars == <<patterns, trained, predictions>>
predictorVars == <<markovChain, steps, callerDigits, forecast, prior>>
detectorVars == <<baselineFrequency, baselineVolatility, detected, unsorted, calibrated>>
backtestVars == <<testData, strategy, result, iterations, compared>>

vars == <<op, recent, recognizerVars, predictorVars, detectorVars, backtestVars>>

NoForecast == [threw |-> FALSE, predictions |-> <<>>]
NoPrior == [same |-> FALSE, outcome |-> NoForecast]

\* The fields of the components a machine does not use.
PredictorIdle ==
    /\ markovChain = ZeroMatrix
    /\ steps = 0
    /\ callerDigits = <<>>
    /\ forecast = NoForecast
    /\ prior = NoPrior

NoDetection == [threw |-> FALSE, anomalies |-> <<>>]

\* new Array(10).fill(10)
DefaultBaseline == [i \in 1 .. 10 |-> Num(10)]

\* calibrate() has not been called.
NotCalibrated == [done |-> FALSE, historicalDigits |-> <<>>, repeated |-> FALSE]

\* new AnomalyDetector(): the field initialisers.
DetectorNew ==
    /\ baselineFrequency = DefaultBaseline
    /\ baselineVolatility = Num(0)
    /\ detected = NoDetection
    /\ unsorted = <<>>
    /\ calibrated = NotCalibrated

\* No backtest() has run.
BacktestIdle ==
    /\ testData = <<>>
    /\ strategy = "match"
    /\ result = NoResult(FALSE)
    /\ iterations = <<>>
    /\ compared = <<>>

\* ------------------------------------------------------ recognizer machine

InitRecognizer ==
    /\ op = "new"
    /\ patterns = <<>>
    /\ trained = <<>>
    /\ recent = <<>>
    /\ predictions = <<>>
    /\ PredictorIdle
    /\ DetectorNew
    /\ BacktestIdle

\* The budget the calls recorded in calls_ have used.
RECURSIVE Work(_)
Work(calls_) == IF calls_ = <<>> THEN 0 ELSE Len(Head(calls_)) + 1 + Work(Tail(calls_))

Train(digits) ==
    /\ Work(trained) + Len(digits) + 1 <= MaxWork
    /\ op' = "train"
    /\ patterns' = train(patterns, digits)
    /\ trained' = Append(trained, digits)
    /\ recent' = <<>>
    /\ predictions' = <<>>
    /\ UNCHANGED <<predictorVars, detectorVars, backtestVars>>

PredictNext(recentDigits) ==
    /\ op' = "predictNext"
    /\ recent' = recentDigits
    /\ predictions' = predictNext(patterns, recentDigits)
    /\ UNCHANGED <<patterns, trained>>
    /\ UNCHANGED <<predictorVars, detectorVars, backtestVars>>

NextRecognizer ==
    \/ \E digits \in TrainInputs : Train(digits)
    \/ \E recentDigits \in RecentInputs : PredictNext(recentDigits)

SpecRecognizer == InitRecognizer /\ [][NextRecognizer]_vars

\* ------------------------------------------------------- predictor machine

\* new MultiStepPredictor(historicalDigits)
InitPredictor ==
    \E historicalDigits \in HistInputs :
        /\ op = "new"
        /\ patterns = train(<<>>, historicalDigits)
        /\ trained = <<historicalDigits>>
        /\ markovChain = buildEnhancedMarkov(historicalDigits)
        /\ recent = <<>>
        /\ predictions = <<>>
        /\ steps = 0
        /\ callerDigits = <<>>
        /\ forecast = NoForecast
        /\ prior = NoPrior
        /\ DetectorNew
        /\ BacktestIdle

PredictNextN(recentDigits, steps_) ==
    LET out == predictNextN(patterns, markovChain, recentDigits, steps_)
    IN  /\ op' = "predictNextN"
        /\ recent' = recentDigits
        /\ steps' = steps_
        /\ forecast' = [threw |-> out.threw, predictions |-> out.predictions]
        /\ callerDigits' = callerArrayAfter(recentDigits, out.currentDigits)
        /\ prior' = IF op = "predictNextN" /\ recent = recentDigits /\ steps = steps_
                    THEN [same |-> TRUE, outcome |-> forecast]
                    ELSE NoPrior
        /\ UNCHANGED <<patterns, trained, markovChain, predictions>>
        /\ UNCHANGED <<detectorVars, backtestVars>>

NextPredictor ==
    \E recentDigits \in ForecastInputs, steps_ \in 1 .. MaxSteps :
        PredictNextN(recentDigits, steps_)

SpecPredictor == InitPredictor /\ [][NextPredictor]_vars

\* -------------------------------------------------------- detector machine

InitDetector ==
    /\ op = "new"
    /\ recent = <<>>
    /\ patterns = <<>>
    /\ trained = <<>>
    /\ predictions = <<>>
    /\ PredictorIdle
    /\ DetectorNew
    /\ BacktestIdle

\* The history after calibrate(historicalDigits).
Recalibrated(historicalDigits) ==
    [done |-> TRUE, historicalDigits |-> historicalDigits,
     repeated |-> calibrated.done /\ calibrated.historicalDigits = historicalDigits]

\* A calibrate whose counts go on from those of the calibrate before.
CalibrateAccumulating(historicalDigits) ==
    /\ op' = "calibrate"
    /\ baselineFrequency' =
          calibrate(calibrated.historicalDigits \o historicalDigits).baselineFrequency
    /\ baselineVolatility' =
          calibrate(calibrated.historicalDigits \o historicalDigits).baselineVolatility
    /\ calibrated' = Recalibrated(historicalDigits)
    /\ recent' = <<>>
    /\ detected' = NoDetection
    /\ unsorted' = <<>>
    /\ UNCHANGED <<recognizerVars, predictorVars, backtestVars>>

\* calibrate() returns nothing; the outcome of an earlier detect is not kept.
Calibrate(historicalDigits) ==
    /\ op' = "calibrate"
    /\ baselineFrequency' = calibrate(historicalDigits).baselineFrequency
    /\ baselineVolatility' = calibrate(historicalDigits).baselineVolatility
    /\ calibrated' = Recalibrated(historicalDigits)
    /\ recent' = <<>>
    /\ detected' = NoDetection
    /\ unsorted' = <<>>
    /\ UNCHANGED <<recognizerVars, predictorVars, backtestVars>>

\* detect() has no throw statement and no operation on numbers throws.
Detect(recentDigits) ==
    /\ op' = "detect"
    /\ recent' = recentDigits
    /\ unsorted' = Detected(baselineFrequency, baselineVolatility, recentDigits)
    /\ detected' = [threw |-> FALSE,
                    anomalies |-> detect(baselineFrequency, baselineVolatility,
                                         recentDigits)]
    /\ UNCHANGED <<baselineFrequency, baselineVolatility, calibrated>>
    /\ UNCHANGED <<recognizerVars, predictorVars, backtestVars>>

NextDetector ==
    \/ \E historicalDigits \in CalibrateInputs : Calibrate(historicalDigits)
    \/ \E recentDigits \in DetectInputs : Detect(recentDigits)

SpecDetector == InitDetector /\ [][NextDetector]_vars

\* -------------------------------------------------------- backtest machine

\* new BacktestingEngine() and the new MultiStepPredictor(historicalDigits)
\* that is passed to it.
InitBacktest ==
    \E historicalDigits \in HistInputs :
        /\ op = "new"
        /\ patterns = train(<<>>, historicalDigits)
        /\ trained = <<historicalDigits>>
        /\ markovChain = buildEnhancedMarkov(historicalDigits)
        /\ recent = <<>>
        /\ predictions = <<>>
        /\ steps = 0
        /\ callerDigits = <<>>
        /\ forecast = NoForecast
        /\ prior = NoPrior
        /\ DetectorNew
        /\ BacktestIdle

Backtest(data, strategy_) ==
    /\ op' = "backtest"
    /\ testData' = data
    /\ strategy' = strategy_
    /\ \E run \in {backtest(patterns, markovChain, data, strategy_)} :
          /\ result' = run.result
          /\ iterations' = run.iterations
    /\ compared' = <<>>
    /\ UNCHANGED <<recent, recognizerVars, predictorVars, detectorVars>>

\* compareStrategies runs backtest under 'match' and then under 'differ':
\* the last backtest is the one under 'differ'.  The iterations of its loop
\* are not recorded.
CompareStrategies(data) ==
    /\ op' = "compareStrategies"
    /\ testData' = data
    /\ strategy' = "differ"
    /\ \E both \in {compareStrategies(patterns, markovChain, data)} :
          /\ result' = both[2].result
          /\ compared' = both
    /\ iterations' = <<>>
    /\ UNCHANGED <<recent, recognizerVars, predictorVars, detectorVars>>

NextBacktest ==
    \/ \E data \in BacktestInputs \cup ConstantInputs, strategy_ \in {"match", "differ"} :
          Backtest(data, strategy_)
    \/ \E data \in BacktestInputs \cup ConstantInputs : CompareStrategies(data)

SpecBacktest == InitBacktest /\ [][NextBacktest]_vars

\* ------------------------------------------------------- recognizer claims

\* The number of windows of d equal to seq.
Occurrences(seq, d) ==
    Cardinality({i \in 1 .. Len(d) - Len(seq) + 1 : SubSeq(d, i, i + Len(seq) - 1) = seq})

RECURSIVE OccurrencesUpTo(_, _)
OccurrencesUpTo(seq, t) ==
    IF t = 0 THEN 0 ELSE Occurrences(seq, trained[t]) + OccurrencesUpTo(seq, t - 1)

\* C1: train() accumulates into the pattern table: every window of length
\* 2..5 of every array trained so far is still stored, under one entry, and a
\* stored pattern's frequency is the number of occurrences of its sequence
\* summed over all the train() calls.
C1_TrainAccumulates ==
    /\ \A j \in 1 .. Len(patterns) :
          /\ Len(patterns[j].sequence) \in 2 .. 5
          /\ patterns[j].frequency = OccurrencesUpTo(patterns[j].sequence, Len(trained))
          /\ \A h \in 1 .. Len(patterns) :
                patterns[h].sequence = patterns[j].sequence => h = j
    /\ \A t \in 1 .. Len(trained) : \A size \in 2 .. 5 :
          \A i \in 1 .. Len(trained[t]) - size + 1 :
             \E j \in 1 .. Len(patterns) :
                patterns[j].sequence = SubSeq(trained[t], i, i + size - 1)

\* A pattern whose frequency was accrued over two different train() calls.
C1_Witness ==
    /\ op = "train"
    /\ Len(trained) >= 2
    /\ \E j \in 1 .. Len(patterns) :
          /\ Occurrences(patterns[j].sequence, trained[1]) >= 1
          /\ Occurrences(patterns[j].sequence, trained[Len(trained)]) >= 1
          /\ patterns[j].frequency >= 3

\* The claimed confidence of a pattern for a corpus of n digits.
ClaimedConfidence(frequency, lastSeen, n) ==
    Add(Mul(Dec(6, 10), Mul(Div(Num(frequency), Num(n)), Num(1000))),
        Mul(Dec(4, 10), Mul(Div(Num(lastSeen), Num(n)), Num(100))))

\* C2: once train() has run, every stored pattern's confidence is
\* 0.6 * (frequency / N * 1000) + 0.4 * (lastSeen / N * 100) for N the length
\* of the array of the most recent train() call, also for the patterns that
\* array does not contain (for N = 0 the IEEE value of that expression).
C2_ConfidenceFormula ==
    Len(trained) >= 1 =>
        \A j \in 1 .. Len(patterns) :
            patterns[j].confidence =
                ClaimedConfidence(patterns[j].frequency, patterns[j].lastSeen,
                                  Len(trained[Len(trained)]))

\* A repeated train() left a pattern that the latest array does not contain.
C2_Witness ==
    /\ op = "train"
    /\ Len(trained) >= 2
    /\ Len(trained[Len(trained)]) >= 2
    /\ \E j \in 1 .. Len(patterns) :
          /\ Occurrences(patterns[j].sequence, trained[Len(trained)]) = 0
          /\ IsFin(patterns[j].confidence)
          /\ patterns[j].confidence.v > 0

\* The stored patterns that vote for digit d given recentDigits.
Voters(d, recentDigits) ==
    {j \in 1 .. Len(patterns) :
        /\ patterns[j].sequence[Len(patterns[j].sequence)] = d
        /\ Len(recentDigits) >= Len(patterns[j].sequence) - 1
        /\ \A i \in 1 .. Len(patterns[j].sequence) - 1 :
              patterns[j].sequence[i] =
                  recentDigits[Len(recentDigits) - (Len(patterns[j].sequence) - 1) + i]}

RECURSIVE SumConfidence(_)
SumConfidence(js) ==
    IF js = {} THEN Num(0)
    ELSE LET j == CHOOSE x \in js : TRUE
         IN  Add(patterns[j].confidence, SumConfidence(js \ {j}))

\* C3: predictNext returns, for each digit, the sum of the confidences of the
\* stored patterns whose prefix matches the tail of recentDigits and whose
\* last element is that digit; a digit without such a pattern is absent.
C3_PredictNextIsSum ==
    op = "predictNext" =>
        \A d \in Digit :
            LET j == MapIndex(predictions, d)
            IN  IF Voters(d, recent) = {} THEN j = 0
                ELSE j # 0 /\ predictions[j][2] = SumConfidence(Voters(d, recent))

\* -------------------------------------------------------- predictor claims

\* C4: predictNextN emits no prediction after the first step k >= 3 whose
\* confidence is 'low' (so a 'low' step 3 ends the list at length 3 whatever
\* steps was), and stops short of steps for no other reason.
C4_EarlyExit ==
    (op = "predictNextN" /\ ~forecast.threw) =>
        LET ps == forecast.predictions
        IN  /\ Len(ps) <= steps
            /\ \A k \in 1 .. Len(ps) : ps[k].step = k
            /\ \A k \in 3 .. Len(ps) - 1 : ps[k].confidence # "low"
            /\ (Len(ps) >= 3 /\ ps[3].confidence = "low") => Len(ps) = 3
            /\ Len(ps) < steps => (Len(ps) >= 3 /\ ps[Len(ps)].confidence = "low")

\* More than three steps were asked for and step 3 came out 'low'.
C4_Witness ==
    /\ op = "predictNextN"
    /\ ~forecast.threw
    /\ steps > 3
    /\ Len(forecast.predictions) = 3
    /\ forecast.predictions[3].confidence = "low"
    /\ forecast.predictions[1].confidence # "low"

OfSeverity(seq, severity) ==
    LET Has(a) == a.severity = severity
    IN  SelectSeq(seq, Has)

\* The position of a check in detect().
Stage(type) ==
    CASE type = "frequency" -> 1
      [] type = "volatility" -> 2
      [] type = "pattern" -> 3
      [] type = "distribution" -> 4

\* C6: the list detect returns is in non-increasing severity rank
\* (critical > high > medium > low), and the anomalies of one severity are
\* in detection order: the frequency anomalies by digit, then volatility,
\* then the patterns, then distribution.
C6_SortedBySeverity ==
    op = "detect" =>
        LET an == detected.anomalies
        IN  /\ Len(an) = Len(unsorted)
            /\ \A i, j \in 1 .. Len(an) :
                  i < j => severityOrder(an[i].severity) >= severityOrder(an[j].severity)
            /\ \A s \in {"critical", "high", "medium", "low"} :
                  OfSeverity(an, s) = OfSeverity(unsorted, s)
            /\ \A i, j \in 1 .. Len(unsorted) :
                  i < j =>
                     /\ Stage(unsorted[i].type) <= Stage(unsorted[j].type)
                     /\ (unsorted[i].type = "frequency" /\ unsorted[j].type = "frequency")
                           => unsorted[i].affectedDigits[1] < unsorted[j].affectedDigits[1]

\* A detect that pushed a medium anomaly before a critical one, and whose
\* result has medium anomalies of three kinds and high ones of two.
C6_Witness ==
    /\ op = "detect"
    /\ \E i, j \in 1 .. Len(unsorted) :
          /\ i < j
          /\ unsorted[i].severity = "medium"
          /\ unsorted[j].severity = "critical"
    /\ detected.anomalies[1].severity = "critical"
    /\ Cardinality({a.type : a \in {detected.anomalies[i] : i \in
                        {j \in 1 .. Len(unsorted) :
                            detected.anomalies[j].severity = "medium"}}}) >= 2
    /\ Cardinality({a.type : a \in {detected.anomalies[i] : i \in
                        {j \in 1 .. Len(unsorted) :
                            detected.anomalies[j].severity = "high"}}}) >= 2

\* The maximal runs of equal digits, as <<first, last>> index pairs.
MaximalRuns(digits) ==
    {r \in (1 .. Len(digits)) \X (1 .. Len(digits)) :
        /\ r[1] <= r[2]
        /\ \A i \in r[1] .. r[2] : digits[i] = digits[r[1]]
        /\ r[1] = 1 \/ digits[r[1] - 1] # digits[r[1]]
        /\ r[2] = Len(digits) \/ digits[r[2] + 1] # digits[r[2]]}

\* The positions of the anomalies that report a streak.
StreakAnomalies(an) ==
    {i \in 1 .. Len(an) :
        an[i].type = "pattern" /\ an[i].description.what = "x consecutive"}

\* C7: for every maximal run of n >= 5 equal digits in recentDigits, detect
\* returns exactly one pattern anomaly of severity medium for each length
\* 5 .. n of that run, and none for a shorter run: the anomalies that
\* report n consecutive ds are as many as the maximal runs of d of length >= n.
C7_StreakPerLength ==
    op = "detect" =>
        LET an == detected.anomalies
        IN  /\ \A i \in StreakAnomalies(an) :
                  /\ an[i].severity = "medium"
                  /\ an[i].description.n.v \in 5 .. Len(recent)
                  /\ Len(an[i].description.digits) = 1
            /\ \A d \in Digit, n \in 5 .. Len(recent) :
                  Cardinality({i \in StreakAnomalies(an) :
                                  /\ an[i].description.n.v = n
                                  /\ an[i].description.digits[1] = d})
                    = Cardinality({r \in MaximalRuns(recent) :
                                  /\ recent[r[1]] = d
                                  /\ r[2] - r[1] + 1 >= n})

\* recentDigits holds two runs of five or more and ends in six equal digits.
C7_Witness ==
    /\ op = "detect"
    /\ Cardinality({r \in MaximalRuns(recent) : r[2] - r[1] + 1 >= 5}) >= 2
    /\ \E r \in MaximalRuns(recent) : r[2] = Len(recent) /\ r[2] - r[1] + 1 >= 6
    /\ Cardinality(StreakAnomalies(detected.anomalies)) >= 3

\* A detect call that divides by zero: recentDigits is empty, or a baseline
\* frequency is 0 or (after calibrate([])) NaN.
ZeroDivision ==
    \/ recent = <<>>
    \/ \E i \in 1 .. 10 : baselineFrequency[i] = Num(0) \/ IsNaN(baselineFrequency[i])

\* C8: a detect call whose frequency or volatility calculation divides by
\* zero fails with a signalled insufficient-data condition and returns no
\* anomaly list.
C8_FailFast ==
    (op = "detect" /\ ZeroDivision) => detected.threw

\* C12: calibrate overwrites: once calibrate(h) has run, whatever calls
\* came before it, the baseline frequencies and volatility are those of a new
\* detector calibrated once with h, and a detect(r) returns the list that
\* detector returns; so calibrating twice with the same data is calibrating
\* once.
C12_CalibrateOverwrites ==
    calibrated.done =>
        /\ baselineFrequency = calibrate(calibrated.historicalDigits).baselineFrequency
        /\ baselineVolatility = calibrate(calibrated.historicalDigits).baselineVolatility
        /\ op = "detect" =>
              detected.anomalies =
                  detect(calibrate(calibrated.historicalDigits).baselineFrequency,
                         calibrate(calibrated.historicalDigits).baselineVolatility,
                         recent)

\* A detect that found anomalies after two calibrations with the same data
\* that moved the baseline off its default.
C12_Witness ==
    /\ op = "detect"
    /\ calibrated.done
    /\ calibrated.repeated
    /\ Len(calibrated.historicalDigits) >= 2
    /\ baselineFrequency # DefaultBaseline
    /\ Len(detected.anomalies) >= 2

\* --------------------------------------------------------- backtest claims

\* The counters before iteration k.
CountersBefore(k) ==
    IF k = 1 THEN <<0, 0>>
    ELSE <<iterations[k - 1].truePositives, iterations[k - 1].falsePositives>>

\* max(0, length - 51)
MostScored == IF Len(testData) > 51 THEN Len(testData) - 51 ELSE 0

\* C9: backtest visits the indices 50 .. length - 2 of testData and no
\* other, with testData[0..i) as history and testData[i] as ground truth;
\* an iteration with a prediction increments exactly one of truePositives
\* and falsePositives, one with an empty prediction list changes neither;
\* trueNegatives and falseNegatives are 0, and truePositives +
\* falsePositives is at most max(0, length - 51).
C9_ScoredRange ==
    (op = "backtest" /\ ~result.threw) =>
        /\ result.trueNegatives = 0
        /\ result.falseNegatives = 0
        /\ Len(iterations) = MostScored
        /\ \A k \in 1 .. Len(iterations) :
              /\ iterations[k].i = 50 + k - 1
              /\ iterations[k].i <= Len(testData) - 2
              /\ iterations[k].historical = SubSeq(testData, 1, iterations[k].i)
              /\ iterations[k].actual = testData[iterations[k].i + 1]
              /\ <<iterations[k].truePositives, iterations[k].falsePositives>> \in
                    IF iterations[k].empty
                    THEN {CountersBefore(k)}
                    ELSE {<<CountersBefore(k)[1] + 1, CountersBefore(k)[2]>>,
                          <<CountersBefore(k)[1], CountersBefore(k)[2] + 1>>}
        /\ <<result.truePositives, result.falsePositives>> = CountersBefore(Len(iterations) + 1)
        /\ result.truePositives + result.falsePositives <= MostScored

\* A backtest over more than one index with a hit and a miss.
C9_Witness ==
    /\ op = "backtest"
    /\ ~result.threw
    /\ Len(testData) >= 53
    /\ Len(iterations) >= 2
    /\ iterations[2].i = 51
    /\ iterations[2].historical = SubSeq(testData, 1, 51)
    /\ result.truePositives >= 1
    /\ result.falsePositives >= 1

\* C10: the accuracy, precision, recall and f1Score backtest returns are
\* never NaN, also when a denominator of their formulas is zero.
C10_MetricsNeverNaN ==
    (op = "backtest" /\ ~result.threw) =>
        /\ ~IsNaN(result.accuracy)
        /\ ~IsNaN(result.precision)
        /\ ~IsNaN(result.recall)
        /\ ~IsNaN(result.f1Score)

\* The predictor's single-step prediction is d at every index backtest scores.
AlwaysPredicts(d) ==
    \A i \in 50 .. Len(testData) - 2 :
        predictNextN(patterns, markovChain, SubSeq(testData, 1, i), 1).predictions[1].digit = d

\* testData is d repeated.
ConstantData(d) == \A i \in 1 .. Len(testData) : testData[i] = d

C13_Complement ==
    op = "compareStrategies" =>
        /\ Len(compared) = 2
        /\ compared[1].strategy = "Match"
        /\ compared[2].strategy = "Differ"
        /\ ~compared[1].result.threw
        /\ ~compared[2].result.threw
        /\ compared[1].result.truePositives = compared[2].result.falsePositives
        /\ compared[1].result.falsePositives = compared[2].result.truePositives
        /\ compared[1].result.truePositives + compared[1].result.falsePositives
              = compared[2].result.truePositives + compared[2].result.falsePositives

\* A comparison in which 'Match' has more hits than misses, and a miss.
C13_Witness ==
    /\ op = "compareStrategies"
    /\ compared[1].result.falsePositives >= 1
    /\ compared[1].result.truePositives > compared[1].result.falsePositives
    /\ compared[2].result.truePositives >= 1

====
